---- MODULE Spec2Model ----
(***************************************************************************)
(* jonblog: the handler of GET /posts/{slug} (src/main.go).                *)
(*                                                                         *)
(* Every request runs PostHandler's closure in its own goroutine.  A       *)
(* request's locals (post, postMarkdown, rest, buf, tpl, err), its         *)
(* ResponseWriter w and the *os.File held inside FileReader.Read make up   *)
(* its frame.  The files on disk ({slug}.md and post.gohtml) are shared    *)
(* and may be replaced while requests run.                                 *)
(*                                                                         *)
(* Text is modelled as a sequence of lines, a line as <<kind, key, text>>: *)
(*   <<"delim", "", "+++">>       a frontmatter delimiter                  *)
(*   <<"kv", key, value>>         a TOML key (tables written "author.x")   *)
(*   <<"junk", "", text>>         a line TOML rejects                      *)
(*   <<"md", element, text>>      a markdown block                         *)
(* HTML and response bodies are sequences of chunks (strings).             *)
(***************************************************************************)
EXTENDS Integers, Sequences, FiniteSets, TLC

\* Requests handled in one run of the server.
MaxRequests == 2
\* Replacements of a file on disk in one run of the server.
MaxEdits == 1

Reqs == 1..MaxRequests

\* The slug segments requested (the route matches non-empty segments only).
Slugs == {"io-reader", "draft"}

StatusOK == 200
StatusNotFound == 404
StatusInternalServerError == 500

----------------------------------------------------------------------------
(* Files on disk *)

Delim == <<"delim", "", "+++">>

\* src/io-reader.md: a post with no frontmatter block.
DocPlain ==
  << <<"md", "h1", "Go's io.Reader">>,
     <<"md", "p", "The io.Reader is defined as:">>,
     <<"md", "pre", "type Reader interface">> >>

\* The post with a TOML frontmatter block (title, unknown keys, author).
DocMeta ==
  << Delim,
     <<"kv", "title", "Go's io.Reader">>,
     <<"kv", "description", "In this article">>,
     <<"kv", "author.name", "Jon Calhoun">>,
     <<"kv", "author.email", "jon@calhoun.io">>,
     Delim,
     <<"md", "p", "The io.Reader is defined as:">>,
     <<"md", "pre", "type Reader interface">> >>

\* A post whose frontmatter sets the slug key (Post.Slug carries toml:"slug").
DocSlug ==
  << Delim,
     <<"kv", "title", "Draft">>,
     <<"kv", "slug", "how-to-boil-eggs">>,
     Delim,
     <<"md", "p", "Hello">> >>

\* A post whose frontmatter block is not valid TOML.
DocBad ==
  << Delim,
     <<"junk", "", "title = ">>,
     Delim,
     <<"md", "p", "Hello">> >>

Docs == {DocPlain, DocMeta, DocSlug, DocBad}

NoFile == [kind |-> "absent", lines |-> <<>>]
\* A directory named {slug}.md: os.Open succeeds, reading it fails.
DirFile == [kind |-> "dir", lines |-> <<>>]
RegFile(lines) == [kind |-> "file", lines |-> lines]

FileStates == {NoFile, DirFile} \cup {RegFile(d) : d \in Docs}

\* The layout of the post page: literal text and the actions on Post.
\* ({{with .Author}} always takes its branch: Author is a struct value.)
LayoutPost ==
  << <<"text", "<h1>">>, <<"field", "Title">>, <<"text", "</h1>">>,
     <<"text", "<a href=mailto:">>, <<"field", "Author.Email">>,
     <<"text", ">">>, <<"field", "Author.Name">>, <<"text", "</a>">>,
     <<"text", "<div class=prose>">>, <<"field", "Content">>,
     <<"text", "</div>">> >>

\* A layout with an action that is never closed: template.ParseFiles fails.
LayoutUnclosed ==
  << <<"text", "<h1>">>, <<"open", "{{.Title">> >>

\* A layout that parses but names a field Post does not have: Execute fails
\* when it reaches the action, after the text before it has been written.
LayoutNoField ==
  << <<"text", "<h1>">>, <<"field", "Title">>, <<"text", "</h1>">>,
     <<"field", "Description">>, <<"field", "Content">> >>

NoLayout == [exists |-> FALSE, toks |-> <<>>]
LayoutFile(toks) == [exists |-> TRUE, toks |-> toks]

LayoutStates ==
  {NoLayout} \cup {LayoutFile(t) : t \in {LayoutPost, LayoutUnclosed, LayoutNoField}}

----------------------------------------------------------------------------
(* The request's records *)

Author(name, email) == [Name |-> name, Email |-> email]

Post(title, slug, content, author) ==
  [Title |-> title, Slug |-> slug, Content |-> content, Author |-> author]

\* var post Post
ZeroPost == Post("", "", <<>>, Author("", ""))

\* A ResponseWriter nothing has been written to.
NewWriter == [wroteHeader |-> FALSE, status |-> 0, body |-> <<>>]

\* w.WriteHeader(code): only the first call counts.
WriteHeader(w, code) ==
  IF w.wroteHeader THEN w
  ELSE [w EXCEPT !.wroteHeader = TRUE, !.status = code]

\* w.Write(chunks): the first write sends status 200 when none was sent.
Write(w, chunks) ==
  [WriteHeader(w, StatusOK) EXCEPT !.body = @ \o chunks]

\* http.Error(w, msg, code): the status, then the message as one line.
HttpError(w, msg, code) ==
  Write(WriteHeader(w, code), <<msg>>)

NoHandle == [open |-> FALSE, file |-> NoFile]

----------------------------------------------------------------------------
(* The collaborators: frontmatter.Parse, goldmark's Convert, html/template *)

HasFrontmatter(lines) == Len(lines) > 0 /\ lines[1] = Delim

\* The line of the closing delimiter of a block opened on line 1.
ClosingLine(lines) ==
  CHOOSE i \in 2..Len(lines) :
    /\ lines[i] = Delim
    /\ \A j \in 2..(i - 1) : lines[j] # Delim

FrontmatterBlock(lines) == SubSeq(lines, 2, ClosingLine(lines) - 1)

\* The TOML decoder rejects the block as a whole; unknown keys are skipped.
TomlError(block) == \E i \in 1..Len(block) : block[i][1] # "kv"

HasKey(block, key) == \E i \in 1..Len(block) : block[i][2] = key

KeyValue(block, key, old) ==
  IF HasKey(block, key)
  THEN block[CHOOSE i \in 1..Len(block) : block[i][2] = key][3]
  ELSE old

\* Fault: the Slug field is not decoded (no toml:"slug" tag on it).
DecodeSlugKeepsOld(block, old) == old

\* toml.Unmarshal(block, &post): a key of the block overwrites the field
\* tagged with it, every other field keeps its value.
DecodeSlug(block, old) == KeyValue(block, "slug", old)

Unmarshal(block, post) ==
  Post(KeyValue(block, "title", post.Title),
       DecodeSlug(block, post.Slug),
       post.Content,
       Author(KeyValue(block, "author.name", post.Author.Name),
              KeyValue(block, "author.email", post.Author.Email)))

\* frontmatter.Parse(strings.NewReader(postMarkdown), &post)
FrontmatterParse(lines, post) ==
  IF ~HasFrontmatter(lines)
  THEN [err |-> FALSE, post |-> post, rest |-> lines]
  ELSE IF TomlError(FrontmatterBlock(lines))
  THEN [err |-> TRUE, post |-> post, rest |-> <<>>]
  ELSE [err |-> FALSE,
        post |-> Unmarshal(FrontmatterBlock(lines), post),
        rest |-> SubSeq(lines, ClosingLine(lines) + 1, Len(lines))]

\* One markdown block as HTML; a fenced block is wrapped by the highlighter
\* with the style given to highlighting.WithStyle.
RenderBlock(line) ==
  IF line[1] = "md" /\ line[2] = "h1" THEN <<"<h1>", line[3], "</h1>">>
  ELSE IF line[1] = "md" /\ line[2] = "pre"
  THEN <<"<pre class=dracula>", line[3], "</pre>">>
  ELSE <<"<p>", line[3], "</p>">>

RECURSIVE Markdown(_)
Markdown(lines) ==
  IF lines = <<>> THEN <<>>
  ELSE RenderBlock(Head(lines)) \o Markdown(Tail(lines))

\* mdRenderer.Convert(rest, &buf) reports only a failed write to its
\* destination, and the destination is a bytes.Buffer, whose Write returns
\* no error.
ConvertFails(lines) == FALSE

\* html/template escapes a string it prints in text or attribute context.
HTMLEscape(s) ==
  IF s = "Go's io.Reader" THEN "Go&#39;s io.Reader" ELSE s

\* template.ParseFiles("post.gohtml")
ParseFilesFails(layout) ==
  \/ ~layout.exists
  \/ \E i \in 1..Len(layout.toks) : layout.toks[i][1] = "open"

KnownField(name) == name \in {"Title", "Author.Name", "Author.Email", "Content"}

\* What an action prints: strings escaped, template.HTML as it is.
FieldOutput(name, post) ==
  IF name = "Content" THEN post.Content
  ELSE IF name = "Title" THEN <<HTMLEscape(post.Title)>>
  ELSE IF name = "Author.Name" THEN <<HTMLEscape(post.Author.Name)>>
  ELSE <<HTMLEscape(post.Author.Email)>>

\* tpl.Execute(w, post): the nodes are written to w one after the other; an
\* action that cannot be evaluated stops the execution with an error, and
\* what was written before it stays written.
RECURSIVE Execute(_, _, _)
Execute(toks, post, w) ==
  IF toks = <<>> THEN [err |-> FALSE, w |-> w]
  ELSE IF Head(toks)[1] = "text"
  THEN Execute(Tail(toks), post, Write(w, <<Head(toks)[2]>>))
  ELSE IF KnownField(Head(toks)[2])
  THEN Execute(Tail(toks), post, Write(w, FieldOutput(Head(toks)[2], post)))
  ELSE [err |-> TRUE, w |-> w]

----------------------------------------------------------------------------
(* State *)

VARIABLES
  files,     \* files[s]: the file {s}.md in the working directory
  layout,    \* the file post.gohtml
  fileVer,   \* fileVer[s]: how often {s}.md has been replaced
  layoutVer, \* how often post.gohtml has been replaced
  frame,     \* frame[r]: the locals of request r's handler call
  hist       \* hist[r]: what request r has called and seen (history)

vars == <<files, layout, fileVer, layoutVer, frame, hist>>

\* A request that has not arrived yet.
IdleFrame ==
  [pc |-> "idle", slug |-> "", post |-> ZeroPost, postMarkdown |-> <<>>,
   rest |-> <<>>, buf |-> <<>>, tpl |-> <<>>, err |-> "nil",
   w |-> NewWriter, f |-> NoHandle]

NoHist ==
  [calls |-> <<>>, opens |-> 0, sawFile |-> NoFile, sawLayout |-> NoLayout,
   sawVer |-> 0]

Terminal(fr) == fr.pc \in {"done", "error"}

\* post.Slug = r.PathValue("slug")
SetSlug(post, slug) == [post EXCEPT !.Slug = slug]

\* The handler is entered: var post Post; post.Slug = r.PathValue("slug").
Enter(slug) ==
  [IdleFrame EXCEPT !.pc = "start", !.slug = slug,
                    !.post = SetSlug(ZeroPost, slug)]

\* http.Error(w, msg, code); return
Fail(fr, cause, msg, code) ==
  [fr EXCEPT !.pc = "error", !.err = cause, !.w = HttpError(fr.w, msg, code)]

\* FileReader.Read up to os.Open(slug + ".md"), where slug is post.Slug.
OpenStep(fr, file) ==
  IF file.kind = "absent"
  THEN Fail(fr, "open", "Post not found", StatusNotFound)
  ELSE [fr EXCEPT !.pc = "opened", !.f = [open |-> TRUE, file |-> file]]

\* Fault: f.Close() called after a successful read only, not deferred.
CloseUnlessFailed(f, failed) == IF failed THEN f ELSE NoHandle

\* defer f.Close(): runs on every return that follows a successful open.
DeferredClose(f, failed) == NoHandle

\* Fault: io.ReadAll's error is dropped and what was read is returned.
ReadAllStepDroppingError(fr) ==
  [fr EXCEPT !.pc = "content-loaded", !.postMarkdown = fr.f.file.lines,
             !.f = NoHandle]

\* io.ReadAll(f), the return of Read (with the deferred Close) and the
\* handler's test of Read's error.
ReadAllStep(fr) ==
  IF fr.f.file.kind = "dir"
  THEN [Fail(fr, "read", "Post not found", StatusNotFound)
          EXCEPT !.f = DeferredClose(fr.f, TRUE)]
  ELSE [fr EXCEPT !.pc = "content-loaded",
                  !.postMarkdown = fr.f.file.lines,
                  !.f = DeferredClose(fr.f, FALSE)]

\* Fault: the frontmatter error is answered like a missing post.
ParseStepAsNotFound(fr) ==
  LET p == FrontmatterParse(fr.postMarkdown, fr.post) IN
  IF p.err
  THEN Fail(fr, "frontmatter", "Post not found", StatusNotFound)
  ELSE [fr EXCEPT !.pc = "frontmatter-parsed", !.post = p.post,
                  !.rest = p.rest]

\* Fault: no return after the frontmatter error is written.
ParseStepWithoutReturn(fr) ==
  LET p == FrontmatterParse(fr.postMarkdown, fr.post) IN
  IF p.err
  THEN [Fail(fr, "frontmatter", "Error parsing frontmatter",
             StatusInternalServerError) EXCEPT !.pc = "frontmatter-parsed"]
  ELSE [fr EXCEPT !.pc = "frontmatter-parsed", !.post = p.post,
                  !.rest = p.rest]

\* frontmatter.Parse into &post, and the test of its error.
ParseStep(fr) ==
  LET p == FrontmatterParse(fr.postMarkdown, fr.post) IN
  IF p.err
  THEN Fail(fr, "frontmatter", "Error parsing frontmatter",
            StatusInternalServerError)
  ELSE [fr EXCEPT !.pc = "frontmatter-parsed", !.post = p.post,
                  !.rest = p.rest]

\* goldmark.New(...), var buf bytes.Buffer, mdRenderer.Convert(rest, &buf).
ConvertStep(fr) ==
  IF ConvertFails(fr.rest)
  THEN Fail(fr, "convert", "Error converting markdown",
            StatusInternalServerError)
  ELSE [fr EXCEPT !.pc = "markdown-rendered", !.buf = Markdown(fr.rest)]

\* template.ParseFiles("post.gohtml") and the test of its error.
ParseFilesStep(fr, lay) ==
  IF ParseFilesFails(lay)
  THEN Fail(fr, "template", "Error parsing template",
            StatusInternalServerError)
  ELSE [fr EXCEPT !.pc = "template-loaded", !.tpl = lay.toks]

\* Fault: the template is executed without post.Content being set.
ExecuteStepWithoutContent(fr) ==
  LET x == Execute(fr.tpl, fr.post, fr.w)
  IN [fr EXCEPT !.pc = "page-rendered", !.w = x.w,
                !.err = IF x.err THEN "execute" ELSE "nil"]

\* post.Content = template.HTML(buf.String()); err = tpl.Execute(w, post).
\* The error is assigned and never read.
ExecuteStep(fr) ==
  LET p == [fr.post EXCEPT !.Content = fr.buf]
      x == Execute(fr.tpl, p, fr.w)
  IN [fr EXCEPT !.pc = "page-rendered", !.post = p, !.w = x.w,
                !.err = IF x.err THEN "execute" ELSE "nil"]

\* The handler returns; the server sends status 200 if none was sent.
ReturnStep(fr) ==
  [fr EXCEPT !.pc = "done", !.w = WriteHeader(fr.w, StatusOK)]

----------------------------------------------------------------------------
(* Actions *)

Called(r, name) == [hist EXCEPT ![r].calls = Append(@, name)]

Edits == layoutVer + fileVer["io-reader"] + fileVer["draft"]

Init ==
  /\ files = [s \in Slugs |-> IF s = "io-reader" THEN RegFile(DocMeta) ELSE NoFile]
  /\ layout = LayoutFile(LayoutPost)
  /\ fileVer = [s \in Slugs |-> 0]
  /\ layoutVer = 0
  /\ frame = [r \in Reqs |-> IdleFrame]
  /\ hist = [r \in Reqs |-> NoHist]

\* Fault: post is declared outside the closure, one record for all requests.
BeginWithSharedPost(r, slug) ==
  /\ frame[r].pc = "idle"
  /\ \A q \in Reqs : q < r => frame[q].pc # "idle"
  /\ frame' = [q \in Reqs |->
                 IF q = r THEN Enter(slug)
                 ELSE IF Terminal(frame[q]) \/ frame[q].pc = "idle" THEN frame[q]
                 ELSE [frame[q] EXCEPT !.post = SetSlug(ZeroPost, slug)]]
  /\ UNCHANGED <<files, layout, fileVer, layoutVer, hist>>

\* The server dispatches a request for /posts/{slug} to the handler.
Begin(r, slug) ==
  /\ frame[r].pc = "idle"
  /\ \A q \in Reqs : q < r => frame[q].pc # "idle"
  /\ frame' = [frame EXCEPT ![r] = Enter(slug)]
  /\ UNCHANGED <<files, layout, fileVer, layoutVer, hist>>

Open(r) ==
  /\ frame[r].pc = "start"
  /\ LET file == files[frame[r].post.Slug]
         fr == OpenStep(frame[r], file)
     IN /\ frame' = [frame EXCEPT ![r] = fr]
        /\ hist' = [Called(r, "Read") EXCEPT
                  ![r].sawFile = file,
                  ![r].sawVer = fileVer[frame[r].post.Slug],
                  ![r].opens = @ + (IF fr.f.open THEN 1 ELSE 0)]
  /\ UNCHANGED <<files, layout, fileVer, layoutVer>>

ReadAll(r) ==
  /\ frame[r].pc = "opened"
  /\ frame' = [frame EXCEPT ![r] = ReadAllStep(frame[r])]
  /\ UNCHANGED hist
  /\ UNCHANGED <<files, layout, fileVer, layoutVer>>

ParseFrontmatter(r) ==
  /\ frame[r].pc = "content-loaded"
  /\ frame' = [frame EXCEPT ![r] = ParseStep(frame[r])]
  /\ hist' = Called(r, "Parse")
  /\ UNCHANGED <<files, layout, fileVer, layoutVer>>

\* Fault: buf is declared outside the closure, one buffer for all requests.
ConvertIntoSharedBuffer(r) ==
  /\ frame[r].pc = "frontmatter-parsed"
  /\ LET fr == ConvertStep(frame[r])
         shared == frame[r].buf \o fr.buf
     IN frame' = [q \in Reqs |->
                    IF q = r THEN [fr EXCEPT !.buf = shared]
                    ELSE [frame[q] EXCEPT !.buf = shared]]
  /\ hist' = Called(r, "Convert")
  /\ UNCHANGED <<files, layout, fileVer, layoutVer>>

Convert(r) ==
  /\ frame[r].pc = "frontmatter-parsed"
  /\ frame' = [frame EXCEPT ![r] = ConvertStep(frame[r])]
  /\ hist' = Called(r, "Convert")
  /\ UNCHANGED <<files, layout, fileVer, layoutVer>>

ParseFiles(r) ==
  /\ frame[r].pc = "markdown-rendered"
  /\ frame' = [frame EXCEPT ![r] = ParseFilesStep(frame[r], layout)]
  /\ hist' = [Called(r, "ParseFiles") EXCEPT ![r].sawLayout = layout]
  /\ UNCHANGED <<files, layout, fileVer, layoutVer>>

ExecuteTemplate(r) ==
  /\ frame[r].pc = "template-loaded"
  /\ frame' = [frame EXCEPT ![r] = ExecuteStep(frame[r])]
  /\ hist' = Called(r, "Execute")
  /\ UNCHANGED <<files, layout, fileVer, layoutVer>>

Return(r) ==
  /\ frame[r].pc = "page-rendered"
  /\ frame' = [frame EXCEPT ![r] = ReturnStep(frame[r])]
  /\ UNCHANGED hist
  /\ UNCHANGED <<files, layout, fileVer, layoutVer>>

\* {slug}.md is replaced (created, rewritten, removed) on disk.  A file that
\* is open keeps the contents it was opened with.
EditFile(slug, file) ==
  /\ Edits < MaxEdits
  /\ file # files[slug]
  /\ files' = [files EXCEPT ![slug] = file]
  /\ fileVer' = [fileVer EXCEPT ![slug] = @ + 1]
  /\ UNCHANGED <<layout, layoutVer, frame, hist>>

\* post.gohtml is replaced on disk.
EditLayout(lay) ==
  /\ Edits < MaxEdits
  /\ lay # layout
  /\ layout' = lay
  /\ layoutVer' = layoutVer + 1
  /\ UNCHANGED <<files, fileVer, frame, hist>>

Next ==
  \/ \E r \in Reqs, slug \in Slugs : Begin(r, slug)
  \/ \E r \in Reqs : Open(r)
  \/ \E r \in Reqs : ReadAll(r)
  \/ \E r \in Reqs : ParseFrontmatter(r)
  \/ \E r \in Reqs : Convert(r)
  \/ \E r \in Reqs : ParseFiles(r)
  \/ \E r \in Reqs : ExecuteTemplate(r)
  \/ \E r \in Reqs : Return(r)
  \/ \E slug \in Slugs, file \in FileStates : EditFile(slug, file)
  \/ \E lay \in LayoutStates : EditLayout(lay)

Spec == Init /\ [][Next]_vars

----------------------------------------------------------------------------
(* Properties *)

Started(r) == frame[r].pc # "idle"
Finished(r) == Terminal(frame[r])

\* FileReader.Read has returned an error to request r.
ReadFailed(r) ==
  /\ hist[r].calls # <<>>
  /\ frame[r].pc # "opened"
  /\ hist[r].sawFile.kind # "file"

\* C1: a request whose Content Source read fails (the file cannot be opened
\* or cannot be read) is answered 404 "Post not found", and Read is the only
\* collaborator it has called.
C1_ReadFailureIsNotFound ==
  \A r \in Reqs :
    ReadFailed(r) =>
      /\ frame[r].pc = "error"
      /\ frame[r].w.status = StatusNotFound
      /\ frame[r].w.body = <<"Post not found">>
      /\ hist[r].calls = <<"Read">>

C1_Witness ==
  \E r \in Reqs :
    /\ ReadFailed(r)
    /\ hist[r].sawFile = DirFile
    /\ frame[r].w.status = StatusNotFound

\* C2: a request in which the Page Renderer fails, at template.ParseFiles or
\* at tpl.Execute, ends with status 500 and the body "Error parsing template".
C2_PageRendererFailureIs500 ==
  \A r \in Reqs :
    (Finished(r) /\ frame[r].err \in {"template", "execute"}) =>
      /\ frame[r].w.status = StatusInternalServerError
      /\ frame[r].w.body = <<"Error parsing template">>

ErrorMessages ==
  {"Post not found", "Error parsing frontmatter", "Error converting markdown",
   "Error parsing template"}

\* C3: the body of a request in which a step failed holds the error message
\* and nothing else: no chunk of the page was written before it.
C3_FailedBodyIsOnlyTheMessage ==
  \A r \in Reqs :
    (Finished(r) /\ frame[r].err # "nil") =>
      /\ Len(frame[r].w.body) = 1
      /\ frame[r].w.body[1] \in ErrorMessages

\* frontmatter.Parse has returned an error to request r.
ParseFailed(r) ==
  /\ Len(hist[r].calls) >= 2
  /\ HasFrontmatter(frame[r].postMarkdown)
  /\ TomlError(FrontmatterBlock(frame[r].postMarkdown))

\* C4: a request whose content was read and whose frontmatter block is
\* malformed is answered 500 "Error parsing frontmatter" and nothing else,
\* and it has called Read and Parse only.
C4_MalformedFrontmatterIs500 ==
  \A r \in Reqs :
    ParseFailed(r) =>
      /\ frame[r].pc = "error"
      /\ frame[r].w.status = StatusInternalServerError
      /\ frame[r].w.body = <<"Error parsing frontmatter">>
      /\ hist[r].calls = <<"Read", "Parse">>

C4_Witness ==
  \E r \in Reqs :
    /\ ParseFailed(r)
    /\ hist[r].sawFile = RegFile(DocBad)
    /\ frame[r].pc = "error"

\* A regular file whose frontmatter block is absent or valid TOML.
WellFormed(file) ==
  /\ file.kind = "file"
  /\ HasFrontmatter(file.lines) => ~TomlError(FrontmatterBlock(file.lines))

MetaOf(lines, key) ==
  IF HasFrontmatter(lines) THEN KeyValue(FrontmatterBlock(lines), key, "")
  ELSE ""

BodyOf(lines) ==
  IF HasFrontmatter(lines)
  THEN SubSeq(lines, ClosingLine(lines) + 1, Len(lines))
  ELSE lines

\* The fixed layout filled in for the post in a file.
PageOf(lines) ==
  <<"<h1>", HTMLEscape(MetaOf(lines, "title")), "</h1>",
    "<a href=mailto:", HTMLEscape(MetaOf(lines, "author.email")), ">",
    HTMLEscape(MetaOf(lines, "author.name")), "</a>", "<div class=prose>">>
  \o Markdown(BodyOf(lines)) \o <<"</div>">>

\* C5 as stated: a request whose content is well-formed ends with status 200
\* and the fixed layout with the rendered fragment in it as the body.
C5_WellFormedIs200 ==
  \A r \in Reqs :
    (Finished(r) /\ WellFormed(hist[r].sawFile)) =>
      /\ frame[r].w.status = StatusOK
      /\ frame[r].w.body = PageOf(hist[r].sawFile.lines)

\* C5 amended: a request whose content is well-formed and which loads the
\* fixed layout ends with status 200 and the layout with the rendered
\* fragment in it as the body; one whose layout does not load ends with 500.
C5_WellFormedWithLayoutIs200 ==
  \A r \in Reqs :
    (Finished(r) /\ WellFormed(hist[r].sawFile) /\ "ParseFiles" \in
       {hist[r].calls[i] : i \in 1..Len(hist[r].calls)}) =>
      /\ hist[r].sawLayout = LayoutFile(LayoutPost) =>
           /\ frame[r].w.status = StatusOK
           /\ frame[r].w.body = PageOf(hist[r].sawFile.lines)
      /\ ParseFilesFails(hist[r].sawLayout) =>
           /\ frame[r].w.status = StatusInternalServerError
           /\ frame[r].w.body = <<"Error parsing template">>

C5_Witness ==
  \E r \in Reqs :
    /\ frame[r].pc = "done"
    /\ hist[r].sawFile = RegFile(DocPlain)
    /\ hist[r].sawLayout = LayoutFile(LayoutPost)
    /\ frame[r].w.status = StatusOK

\* C6 as stated: from the start of the handler on, post.Slug is the slug
\* segment of the request's URL and is not empty.
C6_SlugIsUrlSegment ==
  \A r \in Reqs :
    Started(r) => frame[r].post.Slug = frame[r].slug /\ frame[r].post.Slug # ""

\* Request r has parsed a frontmatter block that sets the slug key.
SlugOverridden(r) ==
  /\ Len(hist[r].calls) >= 2
  /\ HasFrontmatter(frame[r].postMarkdown)
  /\ ~TomlError(FrontmatterBlock(frame[r].postMarkdown))
  /\ HasKey(FrontmatterBlock(frame[r].postMarkdown), "slug")

\* C6 amended: the URL's slug segment is not empty, and post.Slug equals it
\* until frontmatter is parsed; after a successful parse post.Slug is the
\* slug key of the frontmatter block when the block has one, and the URL
\* segment otherwise.
C6_SlugIsUrlSegmentOrFrontmatterKey ==
  \A r \in Reqs :
    Started(r) =>
      /\ frame[r].slug # ""
      /\ frame[r].post.Slug =
           IF SlugOverridden(r)
           THEN MetaOf(frame[r].postMarkdown, "slug")
           ELSE frame[r].slug

C6_Witness ==
  \E r \in Reqs :
    /\ SlugOverridden(r)
    /\ frame[r].post.Slug = "how-to-boil-eggs"
    /\ frame[r].slug = "draft"

\* {slug}.md has not been replaced since request r opened it.
ContentUnchangedSince(r) == hist[r].sawVer = fileVer[frame[r].slug]

SameResponse(r, q) ==
  /\ frame[r].w.status = frame[q].w.status
  /\ frame[r].w.body = frame[q].w.body

CallOrder == <<"Read", "Parse", "Convert", "ParseFiles", "Execute">>

\* The state of the request's state machine a position of the handler is in
\* (opening the file is inside the Content Source step, loading the template
\* inside the Page Renderer step).
StateOf(pc) ==
  IF pc = "opened" THEN "start"
  ELSE IF pc = "template-loaded" THEN "markdown-rendered"
  ELSE pc

StateOrder ==
  <<"idle", "start", "content-loaded", "frontmatter-parsed",
    "markdown-rendered", "page-rendered", "done">>

Rank(pc) == CHOOSE i \in 1..Len(StateOrder) : StateOrder[i] = StateOf(pc)

\* One step of request r, as the state machine allows it.
LinearStep(r) ==
  LET a == frame[r]
      b == frame'[r]
      called == hist'[r].calls # hist[r].calls
  IN /\ Terminal(a) => b = a /\ ~called
     /\ b.pc # a.pc =>
          \/ /\ b.pc = "error" /\ a.err = "nil" /\ b.err # "nil"
             /\ called \/ a.pc = "opened"
          \/ b.pc # "error" /\ StateOf(b.pc) = StateOf(a.pc)
          \/ b.pc # "error" /\ Rank(b.pc) = Rank(a.pc) + 1
     /\ called =>
          /\ a.err = "nil"
          /\ Len(hist[r].calls) < Len(CallOrder)
          /\ hist'[r].calls =
               Append(hist[r].calls, CallOrder[Len(hist[r].calls) + 1])
          /\ hist[r].calls = SubSeq(CallOrder, 1, Len(hist[r].calls))

\* C8: a request moves through start, content-loaded, frontmatter-parsed,
\* markdown-rendered, page-rendered, done one state at a time; error is
\* entered only by a step whose collaborator failed and is never left; each
\* collaborator is called at most once, in order, and only while no earlier
\* step has failed.
C8_LinearStateMachine == [][\A r \in Reqs : LinearStep(r)]_vars

C8_Witness ==
  \E r, q \in Reqs :
    /\ frame[r].pc = "done" /\ hist[r].calls = CallOrder
    /\ frame[q].pc = "error" /\ hist[q].calls = <<"Read", "Parse">>

\* The handler run from entry to return by one request on its own, with the
\* content file and the layout as given.
RunAlone(slug, file, lay) ==
  LET f1 == OpenStep(Enter(slug), file)
      f2 == IF Terminal(f1) THEN f1 ELSE ReadAllStep(f1)
      f3 == IF Terminal(f2) THEN f2 ELSE ParseStep(f2)
      f4 == IF Terminal(f3) THEN f3 ELSE ConvertStep(f3)
      f5 == IF Terminal(f4) THEN f4 ELSE ParseFilesStep(f4, lay)
      f6 == IF Terminal(f5) THEN f5 ELSE ReturnStep(ExecuteStep(f5))
  IN f6

\* C9: whatever the interleaving with other requests, a request ends with
\* the Post record, the rendered buffer and the response it would have had
\* running alone against the files it found.
C9_AsIfAlone ==
  \A r \in Reqs :
    Finished(r) =>
      LET alone == RunAlone(frame[r].slug, hist[r].sawFile, hist[r].sawLayout)
      IN /\ frame[r].post = alone.post
         /\ frame[r].buf = alone.buf
         /\ frame[r].w = alone.w

\* A request that began later has finished while an earlier one is midway.
C9_Witness ==
  \E r, q \in Reqs :
    /\ r < q
    /\ frame[r].pc = "frontmatter-parsed"
    /\ frame[q].pc = "done"
    /\ frame[q].slug = frame[r].slug

\* C10: a request opens at most one file; the file is open only while the
\* request is inside FileReader.Read, and closed when Read has returned,
\* with or without an error.
C10_HandleReleased ==
  \A r \in Reqs :
    /\ hist[r].opens <= 1
    /\ frame[r].f.open => frame[r].pc = "opened"

C10_Witness ==
  \E r \in Reqs :
    /\ hist[r].opens = 1
    /\ hist[r].sawFile = DirFile
    /\ frame[r].pc = "error"
    /\ ~frame[r].f.open

====
